---- MODULE Spec2Model ----
(***************************************************************************)
(* The profiling control loop of cloud-profiler-rust (src/src/lib.rs) and  *)
(* its backoff generator (src/src/backoff.rs).                             *)
(*                                                                         *)
(* Time: the f64 seconds of backoff.rs and the chrono durations of a       *)
(* profile are integers of milliseconds; a std::time::Duration is a record *)
(* [secs, nanos]. The multiplier of a Backoff is counted in tenths.        *)
(***************************************************************************)
EXTENDS Integers, Sequences, FiniteSets, TLC

VARIABLES
    pc,                \* position of the task in maybe_start_profiling
    overflow_checks,   \* the build: TRUE panics on integer overflow, FALSE wraps
    backoff_provider,  \* lib.rs:87  the Backoff the loop owns
    retry_back_off,    \* lib.rs:88  Option<f64>
    profile,           \* lib.rs:106 the Profile create_profile returned
    profile_duration,  \* lib.rs:114 the std Duration to sample for
    configuration,     \* lib.rs:128 the CloudProfilerConfiguration of this iteration
    guard,             \* lib.rs:205 the running ProfilerGuard
    report,            \* lib.rs:129 the Report do_profile built
    sleep_for,         \* the Duration of the tokio::time::sleep the task is in
    last_call,         \* observer: the last call of Backoff::next_backoff
    iter,              \* observer: what the current iteration of the loop did
    prev_cycle,        \* observer: how the last gate-passing iteration ended
    e2e,               \* observer: the end-to-end scenario (upload fails once)
    retry_n            \* observer: the scenario "create fails N times"

vars == <<pc, overflow_checks, backoff_provider, retry_back_off, profile,
          profile_duration, configuration, guard, report, sleep_for,
          last_call, iter, prev_cycle, e2e, retry_n>>

locals == <<profile, profile_duration, configuration, guard, report>>

\* ------------------------------------------------------------ constants

\* backoff::Backoff::new(60.0, 3600.0, 1.3)
MinEnvelopeMs == 60000
MaxEnvelopeMs == 3600000
MultiplierTenths == 13
\* std::time::Duration::new(60, 0)
IdleSleepSecs == 60

\* The observers stop following a scenario after this many create failures
\* (the envelope reaches its ceiling at the 16th) and this many good uploads.
MaxCreateFails == 18
MaxE2EOks == 2

\* ------------------------------------------------------------ values

None == <<>>
Some(v) == <<v>>

Min(a, b) == IF a <= b THEN a ELSE b

\* What the environment may answer.
Durations == {0, 5000, 4300000}
ProfileAnswers ==
    [duration : {None} \cup {Some(d) : d \in Durations},
     name : {None, Some("profile-1")}]
SamplingRates == {100, 1000}

\* std::time::Duration::from_secs_f64, on a value counted in milliseconds
FromSecsF64(ms) == [secs |-> ms \div 1000, nanos |-> (ms % 1000) * 1000000]

\* ------------------------------------------------------------ backoff.rs

BackoffNew(min_envelope_sec, max_envelope_sec, multiplier) ==
    [max_envelope_sec |-> max_envelope_sec,
     multiplier |-> multiplier,
     current_envelope_sec |-> min_envelope_sec]

\* gen_range over the closed range 0.0..=envelope
GenRangeClosed(envelope) ==
    {d \in {0, envelope \div 2, envelope} : 0 <= d /\ d <= envelope}

\* rng.gen_range(0.0..envelope): the draws, by three representatives of the
\* half-open range; the range is empty, and gen_range panics, when there is none.
GenRange(envelope) ==
    {d \in {0, envelope \div 2, envelope - 1} : 0 <= d /\ d < envelope}

\* Advance without the cap of max_envelope_sec
AdvanceNoCap(b) ==
    [b EXCEPT !.current_envelope_sec =
                  (b.current_envelope_sec * b.multiplier) \div 10]

\* Advance dividing by the multiplier
AdvanceShrink(b) ==
    [b EXCEPT !.current_envelope_sec = Min(b.max_envelope_sec,
                  (b.current_envelope_sec * 10) \div b.multiplier)]

\* self.current_envelope_sec = self.max_envelope_sec.min(current * multiplier)
Advance(b) ==
    [b EXCEPT !.current_envelope_sec = Min(b.max_envelope_sec,
                  (b.current_envelope_sec * b.multiplier) \div 10)]

\* The outcomes of next_backoff(&mut self): the panic of gen_range on an empty
\* range, before the envelope is touched, or a duration and the advanced state.
NextBackoff(b) ==
    IF GenRange(b.current_envelope_sec) = {}
    THEN {[panicked |-> TRUE, duration |-> None, state |-> b]}
    ELSE {[panicked |-> FALSE, duration |-> Some(d), state |-> Advance(b)] :
              d \in GenRange(b.current_envelope_sec)}

\* ------------------------------------------------------------ lib.rs:114-118

\* (d.num_milliseconds() as u32) * 1000, the u32 product, split into whole seconds
\* and the nanoseconds left: Duration::new carries nanos / 10^9 into the seconds.
\* 2^32 = 4294967 * 1000 + 296, so the product overflows u32 from 4294968 ms on;
\* the wrapped value is given for ms <= 3 * 4294967, which covers Durations.
MulNanos(ms) ==
    IF ms < 4294968
    THEN [overflow |-> FALSE,
          secs |-> ms \div 1000000,
          nanos |-> (ms % 1000000) * 1000]
    ELSE LET k == (ms - 1) \div 4294967
             a == ms - k * 4294967
             n == (a % 1000000) * 1000 - k * 296
         IN  [overflow |-> TRUE,
              secs |-> IF n < 0 THEN a \div 1000000 - 1 ELSE a \div 1000000,
              nanos |-> IF n < 0 THEN n + 1000000000 ELSE n]

\* Duration::new(d.num_seconds() as u64, (d.num_milliseconds() as u32) * 1000)
ProfileDuration(ms) ==
    [overflow |-> MulNanos(ms).overflow,
     value |-> [secs |-> ms \div 1000 + MulNanos(ms).secs,
                nanos |-> MulNanos(ms).nanos]]

\* ------------------------------------------------------------ observers

\* The error kinds an iteration can end with (the Err arms of the loop), by stage.
CreateFailures == {"auth_create", "create", "missing_duration"}
SampleFailures == {"sampler_start", "report_build"}
UploadFailures == {"pprof", "serialize", "missing_name", "auth_upload", "patch"}
FailureKinds == CreateFailures \cup SampleFailures \cup UploadFailures
\* The panics: an unwrap on Err, an overflow in a checked build, an empty range.
PanicKinds == {"compress", "duration_overflow", "empty_range"}

FreshIter ==
    [gate |-> "none", remote_calls |-> 0, creates |-> 0, patches |-> 0,
     sampler_starts |-> 0, configs |-> 0, waited |-> None, reset |-> FALSE,
     failure |-> "none", nexts |-> 0]

Count(ev, events) == IF ev \in events THEN 1 ELSE 0

\* iter describes the iteration that is running and, at the gate, the one that ended.
IterAfter(ev, val) ==
    IF ev \in {"gate_true", "gate_false"}
    THEN [FreshIter EXCEPT !.gate = ev]
    ELSE [iter EXCEPT
            !.remote_calls = @ + Count(ev, {"auth_create_ok", "auth_create",
                                 "create_ok", "create", "auth_upload_ok",
                                 "auth_upload", "patch_ok", "patch"}),
            !.creates = @ + Count(ev, {"create_ok", "create"}),
            !.patches = @ + Count(ev, {"patch_ok", "patch"}),
            !.sampler_starts = @ + Count(ev, {"sampler_start_ok", "sampler_start"}),
            !.configs = @ + Count(ev, {"config"}),
            !.waited = IF ev = "backoff_sleep" THEN Some(val) ELSE @,
            !.reset = IF ev = "backoff_reset" THEN TRUE ELSE @,
            !.failure = IF ev \in FailureKinds \cup PanicKinds THEN ev ELSE @,
            !.nexts = @ + Count(ev, FailureKinds \cup {"empty_range"})]

PrevCycleAfter(ev) ==
    IF ev = "patch_ok" THEN "ok"
    ELSE IF ev \in FailureKinds \cup PanicKinds THEN "failed"
    ELSE prev_cycle

\* The end-to-end scenario: the gate always true, create always answering a
\* profile of 5 s, the sampler always succeeding, the first upload failing and
\* every later one succeeding. The observer leaves (on = FALSE) with the first
\* event outside the scenario, and after MaxE2EOks good uploads.
E2EOff ==
    [on |-> FALSE, upload_fails |-> 0, upload_oks |-> 0, waits |-> 0,
     last_wait |-> None]

E2EAfter(ev, val) ==
    IF ev = "spawn" THEN [E2EOff EXCEPT !.on = TRUE]
    ELSE IF ~e2e.on THEN e2e
    ELSE IF ev \in {"gate_false"} \cup CreateFailures \cup SampleFailures
                   \cup PanicKinds
    THEN E2EOff
    ELSE IF ev = "create_ok" /\ val.duration # Some(5000) THEN E2EOff
    ELSE IF ev \in UploadFailures
    THEN IF e2e.upload_fails = 0 /\ e2e.upload_oks = 0
         THEN [e2e EXCEPT !.upload_fails = 1]
         ELSE E2EOff
    ELSE IF ev = "patch_ok"
    THEN IF e2e.upload_fails = 1 /\ e2e.upload_oks + 1 < MaxE2EOks
         THEN [e2e EXCEPT !.upload_oks = @ + 1]
         ELSE E2EOff
    ELSE IF ev = "backoff_sleep"
    THEN [e2e EXCEPT !.waits = @ + 1, !.last_wait = Some(val)]
    ELSE e2e

\* The scenario "create_profile fails N times and then succeeds", from a fresh
\* loop with the gate always true: the create calls and failures so far, the last
\* two waits slept and the last two envelopes a wait was drawn from.
RetryOff ==
    [on |-> FALSE, phase |-> "off", calls |-> 0, fails |-> 0,
     prev_wait |-> None, cur_wait |-> None, prev_env |-> None, cur_env |-> None]

RetryAfter(ev, val) ==
    IF ev = "spawn" THEN [RetryOff EXCEPT !.on = TRUE, !.phase = "retrying"]
    ELSE IF ~retry_n.on THEN retry_n
    ELSE IF ev \in {"gate_false"} \cup PanicKinds THEN RetryOff
    ELSE IF retry_n.phase = "retrying"
    THEN IF ev \in {"auth_create", "create"}
         THEN IF retry_n.fails + 1 > MaxCreateFails
              THEN RetryOff
              ELSE [retry_n EXCEPT
                      !.calls = @ + 1, !.fails = @ + 1,
                      !.prev_env = retry_n.cur_env,
                      !.cur_env = Some(backoff_provider.current_envelope_sec)]
         ELSE IF ev = "create_ok"
         THEN [retry_n EXCEPT !.calls = @ + 1, !.phase = "created"]
         ELSE IF ev = "backoff_sleep"
         THEN [retry_n EXCEPT !.prev_wait = retry_n.cur_wait,
                              !.cur_wait = Some(val)]
         ELSE retry_n
    ELSE IF retry_n.phase = "created"
    THEN IF ev \in {"sampler_start_ok", "sampler_start"}
         THEN [retry_n EXCEPT !.phase = "sampling"]
         ELSE IF ev = "missing_duration" THEN RetryOff
         ELSE retry_n
    ELSE IF ev \in {"gate_true"} THEN RetryOff
    ELSE retry_n

Observe(ev, val) ==
    /\ iter' = IterAfter(ev, val)
    /\ prev_cycle' = PrevCycleAfter(ev)
    /\ e2e' = E2EAfter(ev, val)
    /\ retry_n' = RetryAfter(ev, val)

NoCall == [made |-> FALSE, envelope_before |-> 0, returned |-> None,
           panicked |-> FALSE]

\* ------------------------------------------------------------ lib.rs:60-145

Init ==
    /\ pc = "on_gce"
    /\ overflow_checks \in BOOLEAN
    /\ backoff_provider = None
    /\ retry_back_off = None
    /\ profile = None
    /\ profile_duration = None
    /\ configuration = None
    /\ guard = None
    /\ report = None
    /\ sleep_for = None
    /\ last_call = NoCall
    /\ iter = FreshIter
    /\ prev_cycle = "none"
    /\ e2e = E2EOff
    /\ retry_n = RetryOff

\* NotOnGce with the check made after the task was set up and spawned
NotOnGceAfterSpawn ==
    /\ pc = "on_gce"
    /\ pc' = "returned"
    /\ backoff_provider' = BackoffNew(MinEnvelopeMs, MaxEnvelopeMs, MultiplierTenths)
    /\ retry_back_off' = None
    /\ Observe("spawn", 0)
    /\ UNCHANGED <<overflow_checks, locals, sleep_for, last_call>>

\* if !on_gce().await { return; }
NotOnGce ==
    /\ pc = "on_gce"
    /\ pc' = "returned"
    /\ UNCHANGED <<overflow_checks, backoff_provider, retry_back_off, locals,
                   sleep_for, last_call, iter, prev_cycle, e2e, retry_n>>

\* tokio::spawn: the task starts with a fresh Backoff and no pending backoff
Spawn ==
    /\ pc = "on_gce"
    /\ pc' = "gate"
    /\ backoff_provider' = BackoffNew(MinEnvelopeMs, MaxEnvelopeMs, MultiplierTenths)
    /\ retry_back_off' = None
    /\ Observe("spawn", 0)
    /\ UNCHANGED <<overflow_checks, locals, sleep_for, last_call>>

\* Every Err arm of the loop: retry_back_off = Some(backoff_provider.next_backoff());
\* continue; the locals of the iteration are dropped.
Fail(kind) ==
    \E o \in NextBackoff(backoff_provider) :
        /\ backoff_provider' = o.state
        /\ last_call' = [made |-> TRUE,
                         envelope_before |-> backoff_provider.current_envelope_sec,
                         returned |-> o.duration,
                         panicked |-> o.panicked]
        /\ IF o.panicked
           THEN /\ pc' = "panicked"
                /\ UNCHANGED retry_back_off
                /\ Observe("empty_range", 0)
           ELSE /\ pc' = "gate"
                /\ retry_back_off' = o.duration
                /\ Observe(kind, 0)
        /\ profile' = None
        /\ profile_duration' = None
        /\ configuration' = None
        /\ guard' = None
        /\ report' = None
        /\ UNCHANGED <<overflow_checks, sleep_for>>

\* A stage that succeeded and moves on, touching none of the loop's variables
Step(to, ev) ==
    /\ pc' = to
    /\ Observe(ev, 0)
    /\ UNCHANGED <<overflow_checks, backoff_provider, retry_back_off, sleep_for,
                   last_call>>

\* GateFalse without the sleep and the continue: the iteration goes on
GateFalseFallsThrough ==
    /\ pc = "gate"
    /\ Step("backoff", "gate_false")
    /\ UNCHANGED locals

\* GateFalse starting the backoff over, as the else branch of the wait does
GateFalseResets ==
    /\ pc = "gate"
    /\ pc' = "idle_sleep"
    /\ sleep_for' = Some([secs |-> IdleSleepSecs, nanos |-> 0])
    /\ backoff_provider' = BackoffNew(MinEnvelopeMs, MaxEnvelopeMs, MultiplierTenths)
    /\ retry_back_off' = None
    /\ Observe("gate_false", 0)
    /\ UNCHANGED <<overflow_checks, locals, last_call>>

\* if !shared_should_start() { sleep(Duration::new(60, 0)).await; continue; }
GateFalse ==
    /\ pc = "gate"
    /\ pc' = "idle_sleep"
    /\ sleep_for' = Some([secs |-> IdleSleepSecs, nanos |-> 0])
    /\ Observe("gate_false", 0)
    /\ UNCHANGED <<overflow_checks, backoff_provider, retry_back_off, locals,
                   last_call>>

IdleWake ==
    /\ pc = "idle_sleep"
    /\ pc' = "gate"
    /\ sleep_for' = None
    /\ Observe("idle_wake", 0)
    /\ UNCHANGED <<overflow_checks, backoff_provider, retry_back_off, locals,
                   last_call>>

GateTrue ==
    /\ pc = "gate"
    /\ Step("backoff", "gate_true")
    /\ UNCHANGED locals

\* if let Some(rbo) = retry_back_off { sleep(Duration::from_secs_f64(rbo)).await }
BackoffWait ==
    /\ pc = "backoff"
    /\ retry_back_off # None
    /\ pc' = "backoff_sleep"
    /\ sleep_for' = Some(FromSecsF64(retry_back_off[1]))
    /\ Observe("backoff_sleep", retry_back_off[1])
    /\ UNCHANGED <<overflow_checks, backoff_provider, retry_back_off, locals,
                   last_call>>

\* BackoffWake going back to the gate after the wait, before session-create
BackoffWakeRechecksGate ==
    /\ pc = "backoff_sleep"
    /\ pc' = "gate"
    /\ sleep_for' = None
    /\ Observe("backoff_wake", 0)
    /\ UNCHANGED <<overflow_checks, backoff_provider, retry_back_off, locals,
                   last_call>>

BackoffWake ==
    /\ pc = "backoff_sleep"
    /\ pc' = "create_auth"
    /\ sleep_for' = None
    /\ Observe("backoff_wake", 0)
    /\ UNCHANGED <<overflow_checks, backoff_provider, retry_back_off, locals,
                   last_call>>

\* else { backoff_provider = Backoff::new(60.0, 3600.0, 1.3); retry_back_off = None; }
BackoffReset ==
    /\ pc = "backoff"
    /\ retry_back_off = None
    /\ pc' = "create_auth"
    /\ backoff_provider' = BackoffNew(MinEnvelopeMs, MaxEnvelopeMs, MultiplierTenths)
    /\ retry_back_off' = None
    /\ Observe("backoff_reset", 0)
    /\ UNCHANGED <<overflow_checks, locals, sleep_for, last_call>>

\* create_profile: get_hub().await? (get_auth_token fails)
CreateAuthFail ==
    /\ pc = "create_auth"
    /\ Fail("auth_create")

CreateAuthOk ==
    /\ pc = "create_auth"
    /\ Step("create", "auth_create_ok")
    /\ UNCHANGED locals

\* create_profile: profiles_create(..).doit() answers Err
CreateFail ==
    /\ pc = "create"
    /\ Fail("create")

\* create_profile: Ok((_response, profile)) => Ok(profile)
CreateOk ==
    /\ pc = "create"
    /\ \E p \in ProfileAnswers :
        /\ profile' = p
        /\ Observe("create_ok", p)
    /\ pc' = "duration"
    /\ UNCHANGED <<overflow_checks, backoff_provider, retry_back_off,
                   profile_duration, configuration, guard, report, sleep_for,
                   last_call>>

\* DurationMissing taking a missing duration for a zero one and going on
DurationMissingDefault ==
    /\ pc = "duration"
    /\ profile.duration = None
    /\ profile_duration' = Some([secs |-> 0, nanos |-> 0])
    /\ Step("config", "duration_ok")
    /\ UNCHANGED <<profile, configuration, guard, report>>

\* match profile.duration { None => { next_backoff; continue } }
DurationMissing ==
    /\ pc = "duration"
    /\ profile.duration = None
    /\ Fail("missing_duration")

\* DurationOk taking a duration of 0 for a missing one
DurationOkRejectsZero ==
    /\ pc = "duration"
    /\ profile.duration # None
    /\ ~(ProfileDuration(profile.duration[1]).overflow /\ overflow_checks)
    /\ IF profile.duration[1] = 0
       THEN Fail("missing_duration")
       ELSE /\ profile_duration' = Some(ProfileDuration(profile.duration[1]).value)
            /\ Step("config", "duration_ok")
            /\ UNCHANGED <<profile, configuration, guard, report>>

\* Some(d) => Duration::new(..), the u32 product within range or wrapped
DurationOk ==
    /\ pc = "duration"
    /\ profile.duration # None
    /\ ~(ProfileDuration(profile.duration[1]).overflow /\ overflow_checks)
    /\ profile_duration' = Some(ProfileDuration(profile.duration[1]).value)
    /\ Step("config", "duration_ok")
    /\ UNCHANGED <<profile, configuration, guard, report>>

\* Some(d) => the u32 product overflows in a build with overflow checks: a panic
DurationOverflow ==
    /\ pc = "duration"
    /\ profile.duration # None
    /\ ProfileDuration(profile.duration[1]).overflow /\ overflow_checks
    /\ Step("panicked", "duration_overflow")
    /\ UNCHANGED locals

\* let configuration = shared_get_configuration();
GetConfiguration ==
    /\ pc = "config"
    /\ \E rate \in SamplingRates : configuration' = Some(rate)
    /\ Step("profile_start", "config")
    /\ UNCHANGED <<profile, profile_duration, guard, report>>

\* do_profile: pprof::ProfilerGuard::new(configuration.sampling_rate) answers Err
SamplerStartFail ==
    /\ pc = "profile_start"
    /\ Fail("sampler_start")

\* SamplerStartOk starting the sampler at a fixed rate, whatever the accessor said
SamplerStartOkFixedRate ==
    /\ pc = "profile_start"
    /\ pc' = "profile_sleep"
    /\ guard' = Some(100)
    /\ sleep_for' = profile_duration
    /\ Observe("sampler_start_ok", 0)
    /\ UNCHANGED <<overflow_checks, backoff_provider, retry_back_off, profile,
                   profile_duration, configuration, report, last_call>>

\* do_profile: Ok(guard), then tokio::time::sleep(profile_duration)
SamplerStartOk ==
    /\ pc = "profile_start"
    /\ pc' = "profile_sleep"
    /\ guard' = configuration
    /\ sleep_for' = profile_duration
    /\ Observe("sampler_start_ok", 0)
    /\ UNCHANGED <<overflow_checks, backoff_provider, retry_back_off, profile,
                   profile_duration, configuration, report, last_call>>

\* ProfileWake starting the next session-create while the report waits
ProfileWakePipelined ==
    /\ pc = "profile_sleep"
    /\ pc' = "create_auth"
    /\ sleep_for' = None
    /\ Observe("profile_wake", 0)
    /\ UNCHANGED <<overflow_checks, backoff_provider, retry_back_off, locals,
                   last_call>>

\* do_profile: tokio::time::sleep(profile_duration) ends
ProfileWake ==
    /\ pc = "profile_sleep"
    /\ pc' = "report_build"
    /\ sleep_for' = None
    /\ Observe("profile_wake", 0)
    /\ UNCHANGED <<overflow_checks, backoff_provider, retry_back_off, locals,
                   last_call>>

\* do_profile: guard.report().build() answers Err
ReportBuildFail ==
    /\ pc = "report_build"
    /\ Fail("report_build")

ReportBuildOk ==
    /\ pc = "report_build"
    /\ report' = guard
    /\ guard' = None
    /\ Step("pprof", "report_ok")
    /\ UNCHANGED <<profile, profile_duration, configuration>>

\* update_gcp_profile_server: report.pprof() answers Err
PprofFail ==
    /\ pc = "pprof"
    /\ Fail("pprof")

PprofOk ==
    /\ pc = "pprof"
    /\ Step("write_to_vec", "pprof_ok")
    /\ UNCHANGED locals

\* update_gcp_profile_server: pprof_data.write_to_vec(&mut content) answers Err
SerializeFail ==
    /\ pc = "write_to_vec"
    /\ Fail("serialize")

SerializeOk ==
    /\ pc = "write_to_vec"
    /\ Step("gzip", "serialize_ok")
    /\ UNCHANGED locals

\* encoder.write_all(&content).unwrap() or encoder.finish().unwrap() on an Err
CompressPanic ==
    /\ pc = "gzip"
    /\ Step("panicked", "compress")
    /\ UNCHANGED locals

CompressOk ==
    /\ pc = "gzip"
    /\ Step("name", "compress_ok")
    /\ UNCHANGED locals

\* match profile.name.clone() { None => return Err(FailedToSerializeProfile) }
NameMissing ==
    /\ pc = "name"
    /\ profile.name = None
    /\ Fail("missing_name")

NameOk ==
    /\ pc = "name"
    /\ profile.name # None
    /\ Step("upload_auth", "name_ok")
    /\ UNCHANGED locals

\* update_gcp_profile_server: get_hub().await? (get_auth_token fails)
UploadAuthFail ==
    /\ pc = "upload_auth"
    /\ Fail("auth_upload")

UploadAuthOk ==
    /\ pc = "upload_auth"
    /\ Step("patch", "auth_upload_ok")
    /\ UNCHANGED locals

\* PatchFail sending the same profile again instead of leaving the iteration
PatchFailRetriesUpload ==
    /\ pc = "patch"
    /\ Step("upload_auth", "patch")
    /\ UNCHANGED locals

\* update_gcp_profile_server: profiles_patch(profile, &name).doit() answers Err
PatchFail ==
    /\ pc = "patch"
    /\ Fail("patch")

\* update_gcp_profile_server answers Ok(()): the loop body ends, with nothing
\* assigned to retry_back_off or backoff_provider
PatchOk ==
    /\ pc = "patch"
    /\ Step("gate", "patch_ok")
    /\ profile' = None
    /\ profile_duration' = None
    /\ configuration' = None
    /\ guard' = None
    /\ report' = None

Next ==
    \/ NotOnGce \/ Spawn
    \/ GateFalse \/ IdleWake \/ GateTrue
    \/ BackoffWait \/ BackoffWake \/ BackoffReset
    \/ CreateAuthFail \/ CreateAuthOk \/ CreateFail \/ CreateOk
    \/ DurationMissing \/ DurationOk \/ DurationOverflow
    \/ GetConfiguration \/ SamplerStartFail \/ SamplerStartOk \/ ProfileWake
    \/ ReportBuildFail \/ ReportBuildOk
    \/ PprofFail \/ PprofOk \/ SerializeFail \/ SerializeOk
    \/ CompressPanic \/ CompressOk \/ NameMissing \/ NameOk
    \/ UploadAuthFail \/ UploadAuthOk \/ PatchFail \/ PatchOk

Spec == Init /\ [][Next]_vars

\* The spawned task is polled by the runtime until it ends: a step that can be
\* taken (a stage answering, a sleep running out) is eventually taken.
SpecFair == Spec /\ WF_vars(Next)

\* ------------------------------------------------------------ backoff.rs alone

\* The Backoffs a caller can build: floor <= ceiling, multiplier > 1 (in tenths)
Floors == {0, 1, 100, 60000}
Ceilings == {0, 100, 250, 3600000}
Multipliers == {11, 13, 20}

InitBackoff ==
    /\ pc = "next_backoff"
    /\ overflow_checks \in BOOLEAN
    /\ \E floor \in Floors, ceiling \in Ceilings, multiplier \in Multipliers :
        /\ floor <= ceiling
        /\ backoff_provider = BackoffNew(floor, ceiling, multiplier)
    /\ retry_back_off = None
    /\ profile = None
    /\ profile_duration = None
    /\ configuration = None
    /\ guard = None
    /\ report = None
    /\ sleep_for = None
    /\ last_call = NoCall
    /\ iter = FreshIter
    /\ prev_cycle = "none"
    /\ e2e = E2EOff
    /\ retry_n = RetryOff

\* One call of next_backoff on the Backoff under test
CallNextBackoff ==
    /\ pc = "next_backoff"
    /\ \E o \in NextBackoff(backoff_provider) :
        /\ backoff_provider' = o.state
        /\ retry_back_off' = o.duration
        /\ last_call' = [made |-> TRUE,
                         envelope_before |-> backoff_provider.current_envelope_sec,
                         returned |-> o.duration,
                         panicked |-> o.panicked]
        /\ pc' = IF o.panicked THEN "panicked" ELSE "next_backoff"
    /\ UNCHANGED <<overflow_checks, locals, sleep_for, iter, prev_cycle, e2e,
                   retry_n>>

NextBackoffOnly == CallNextBackoff

SpecBackoff == InitBackoff /\ [][NextBackoffOnly]_vars

\* ------------------------------------------------------------ claims

Spawned == pc \notin {"on_gce", "returned", "next_backoff"}
Envelope == backoff_provider.current_envelope_sec

\* C1: after an iteration in which gate, create, sample and upload all succeeded,
\* the next gate-passing iteration sleeps no backoff-wait and enters
\* session-create with the envelope reset to the floor.
C1_SuccessClearsFailure ==
    prev_cycle = "ok" =>
        /\ pc # "backoff_sleep"
        /\ pc = "create_auth" => (iter.waited = None /\ Envelope = MinEnvelopeMs)

\* C2: in the end-to-end scenario (first upload fails, later ones succeed) the run
\* holds one backoff-wait, below 60 s and after the failed upload; once an upload
\* has succeeded the following cycle enters session-create with no further wait and
\* the envelope at the floor.
C2_EndToEnd ==
    e2e.on =>
        /\ e2e.waits <= e2e.upload_fails
        /\ e2e.waits = 1 => e2e.last_wait[1] < MinEnvelopeMs
        /\ (e2e.upload_oks >= 1 /\ pc \notin {"gate", "backoff"}) =>
               /\ pc # "backoff_sleep"
               /\ e2e.waits = 1
               /\ Envelope = MinEnvelopeMs

\* C3: whatever kind of failure a stage ends with (the Err kinds and the
\* compression failure), the task is alive at the idle-gate with the failure
\* recorded and a backoff value pending.
StageFailureKinds == FailureKinds \cup {"compress"}
C3_EveryFailureReturnsToGate ==
    iter.failure \in StageFailureKinds =>
        /\ pc = "gate"
        /\ retry_back_off # None
        /\ prev_cycle = "failed"

\* C4: an iteration whose gate evaluated false makes no remote call and starts no
\* sampling, sleeps 60 s and is back at the gate; an iteration whose gate
\* evaluated true never idles and has entered session-create before it ends.
C4_IdleIterationIsInert ==
    /\ iter.gate = "gate_false" =>
        /\ iter.remote_calls = 0 /\ iter.creates = 0 /\ iter.patches = 0
        /\ iter.sampler_starts = 0
        /\ pc \in {"idle_sleep", "gate"}
        /\ pc = "idle_sleep" => sleep_for = Some([secs |-> 60, nanos |-> 0])
    /\ iter.gate = "gate_true" =>
        /\ pc # "idle_sleep"
        /\ pc = "gate" => iter.remote_calls >= 1
    /\ pc \in {"create_auth", "create", "profile_start", "patch"} =>
        iter.gate = "gate_true"

\* an idle iteration has ended while a backoff value is pending
C4_Witness ==
    /\ pc = "gate" /\ iter.gate = "gate_false" /\ retry_back_off # None

C6_EnvelopeWithinBounds ==
    Spawned => (MinEnvelopeMs <= Envelope /\ Envelope <= MaxEnvelopeMs)

\* next_backoff was called at the ceiling and the envelope is still the ceiling
C6_Witness ==
    /\ Spawned /\ last_call.made
    /\ last_call.envelope_before = MaxEnvelopeMs
    /\ Envelope = MaxEnvelopeMs

C8_EnvelopeAdvance ==
    last_call.made =>
        /\ Envelope = Min(backoff_provider.max_envelope_sec,
               (last_call.envelope_before * backoff_provider.multiplier) \div 10)
        /\ last_call.envelope_before <= Envelope
        /\ Envelope <= backoff_provider.max_envelope_sec
        /\ last_call.envelope_before = backoff_provider.max_envelope_sec =>
               Envelope = backoff_provider.max_envelope_sec

\* a call grew the envelope, and the cap of the ceiling cut the product
C8_Witness ==
    /\ last_call.made /\ ~last_call.panicked
    /\ last_call.envelope_before < Envelope
    /\ Envelope = backoff_provider.max_envelope_sec
    /\ (last_call.envelope_before * backoff_provider.multiplier) \div 10 > Envelope

\* C9: a call of next_backoff with current_envelope = 0 does not fail: it returns
\* the duration 0 and leaves a valid state.
C9_ZeroEnvelopeReturnsZero ==
    (last_call.made /\ last_call.envelope_before = 0) =>
        /\ ~last_call.panicked
        /\ last_call.returned = Some(0)
        /\ pc # "panicked"

\* C10: an iteration whose session came without a duration ends as a failure:
\* no configuration read, no sampler start and no upload in it, one backoff value
\* computed and pending, the task at the idle-gate; and no stage after the
\* duration check ever holds a session without a duration.
C10_MissingDurationFails ==
    /\ iter.failure = "missing_duration" =>
        /\ pc = "gate"
        /\ iter.creates = 1
        /\ iter.configs = 0 /\ iter.sampler_starts = 0 /\ iter.patches = 0
        /\ iter.nexts = 1
        /\ retry_back_off # None /\ retry_back_off = last_call.returned
        /\ prev_cycle = "failed"
    /\ pc \in {"config", "profile_start", "profile_sleep", "report_build", "pprof",
               "write_to_vec", "gzip", "name", "upload_auth", "patch"} =>
        (profile # None /\ profile.duration # None /\ profile_duration # None)

\* the iteration that just ended failed on a session without a duration
C10_Witness ==
    /\ pc = "gate" /\ iter.failure = "missing_duration" /\ retry_back_off # None

\* C11: while the sampler runs the task sleeps exactly the duration of the
\* session: its whole seconds and its sub-second part, unchanged.
C11_SleepsSessionDuration ==
    pc = "profile_sleep" =>
        sleep_for = Some([secs |-> profile.duration[1] \div 1000,
                          nanos |-> (profile.duration[1] % 1000) * 1000000])

\* The positions of the three stages of a cycle
CreateStages == {"create_auth", "create", "duration"}
SampleStages == {"config", "profile_start", "profile_sleep", "report_build"}
UploadStages == {"pprof", "write_to_vec", "gzip", "name", "upload_auth", "patch"}

\* C12: an iteration creates, samples and uploads at most once and in that order,
\* each stage entered only with what the stage before it produced in the same
\* iteration; nothing of a cycle (session, sampler, report) is held when the next
\* iteration starts, so the session and the report an upload is called with are
\* those of its own iteration and one cycle is in progress at a time.
C12_StagesSequential ==
    /\ iter.creates <= 1 /\ iter.sampler_starts <= 1 /\ iter.patches <= 1
    /\ iter.sampler_starts <= iter.creates /\ iter.patches <= iter.sampler_starts
    /\ pc \in {"gate", "idle_sleep", "backoff", "backoff_sleep", "create_auth",
               "create"} =>
           (profile = None /\ guard = None /\ report = None)
    /\ pc \in {"backoff", "backoff_sleep", "create_auth", "create"} =>
           (iter.creates = 0 /\ iter.sampler_starts = 0 /\ iter.patches = 0)
    /\ pc \in SampleStages =>
           /\ iter.creates = 1 /\ iter.patches = 0
           /\ profile # None /\ report = None
    /\ pc \in UploadStages =>
           /\ iter.creates = 1 /\ iter.sampler_starts = 1 /\ iter.patches = 0
           /\ profile # None /\ report # None

\* an upload is about to be called in an iteration that follows a failed one
C12_Witness ==
    /\ pc = "patch" /\ prev_cycle = "failed"
    /\ iter.creates = 1 /\ iter.sampler_starts = 1

\* C13: on a host that is not eligible the start function has returned with no
\* task spawned: no Backoff built, no gate evaluation, no configuration read, no
\* remote call, no sampling and no sleep, and nothing can happen any more.
C13_IneligibleHostStartsNothing ==
    pc = "returned" =>
        /\ backoff_provider = None /\ retry_back_off = None
        /\ iter = FreshIter /\ last_call = NoCall
        /\ ~e2e.on /\ ~retry_n.on
        /\ profile = None /\ configuration = None /\ guard = None /\ report = None
        /\ sleep_for = None
        /\ ~ENABLED Next

\* the eligibility check answered false and the function returned
C13_Witness ==
    /\ pc = "returned" /\ iter.gate = "none" /\ iter.configs = 0

ZeroDuration == [secs |-> 0, nanos |-> 0]

\* C14: a session of duration 0 is not a failure: the step that reads the duration
\* goes on to the configuration with a zero Duration, the sleep of the sampling
\* stage is a sleep of zero, and the upload stage of that iteration runs for the
\* session, after one create and one sampler start.
C14_ZeroDurationSamplesAndUploads ==
    /\ [][(pc = "duration" /\ profile.duration = Some(0)) =>
              (pc' = "config" /\ profile_duration' = Some(ZeroDuration))]_vars
    /\ []((pc = "profile_sleep" /\ profile.duration = Some(0)) =>
              sleep_for = Some(ZeroDuration))
    /\ []((pc \in UploadStages /\ profile.duration = Some(0)) =>
              /\ profile_duration = Some(ZeroDuration)
              /\ iter.creates = 1 /\ iter.sampler_starts = 1
              /\ iter.failure = "none")

\* the upload is being called for a session of duration 0
C14_Witness ==
    /\ pc = "patch" /\ profile.duration = Some(0)
    /\ profile_duration = Some(ZeroDuration)

\* C15: whichever stage fails and with whichever kind, next_backoff is called once,
\* its value is the pending backoff, the stages after the failed one are skipped
\* and the task is back at the gate; the next gate-passing iteration sleeps that
\* value, and only then calls session-create.
C15_EveryFailureBacksOffOnce ==
    /\ iter.failure \in StageFailureKinds =>
        /\ pc = "gate"
        /\ iter.nexts = 1
        /\ last_call.made /\ last_call.returned # None
        /\ retry_back_off = last_call.returned
        /\ iter.failure \in CreateFailures =>
               (iter.sampler_starts = 0 /\ iter.patches = 0)
        /\ iter.failure \in SampleFailures => iter.patches = 0
    /\ pc = "backoff_sleep" =>
        /\ sleep_for = Some(FromSecsF64(retry_back_off[1]))
        /\ iter.remote_calls = 0
    /\ (prev_cycle = "failed" /\ pc \in CreateStages) =>
        iter.waited = last_call.returned

\* C16: shared_get_configuration is called once in an iteration, after the
\* session-create stage and before the sampler is started, and the sampler runs
\* at the rate that call returned; no configuration survives into the next
\* iteration.
C16_RateIsThisIterationsConfiguration ==
    /\ iter.configs <= 1
    /\ pc \in {"idle_sleep", "backoff", "backoff_sleep", "config"} \cup CreateStages =>
        (configuration = None /\ guard = None /\ iter.configs = 0)
    /\ pc = "gate" => (configuration = None /\ guard = None)
    /\ pc = "profile_start" =>
        /\ iter.configs = 1 /\ iter.sampler_starts = 0
        /\ configuration \in {Some(rate) : rate \in SamplingRates}
    /\ iter.sampler_starts >= 1 => (iter.configs = 1 /\ iter.sampler_starts = 1)
    /\ pc = "profile_sleep" => (guard # None /\ guard = configuration)
    /\ pc \in UploadStages => (report # None /\ report = configuration)

C16_Witness ==
    /\ pc = "profile_sleep" /\ prev_cycle = "ok"
    /\ configuration = Some(1000) /\ guard = Some(1000)

\* C17: an idle iteration (the gate false, the 60 s sleep, back to the gate)
\* changes neither retry_back_off nor the Backoff, and makes no next_backoff
\* call; a gate that is true changes them neither, and a pending value is then
\* the sleep of that iteration.
C17_IdleLeavesBackoffUntouched ==
    /\ [][((pc = "gate" /\ pc' \in {"idle_sleep", "backoff"}) \/ pc = "idle_sleep") =>
              UNCHANGED <<retry_back_off, backoff_provider, last_call>>]_vars
    /\ [][pc = "idle_sleep" => (pc' = "gate" /\ iter'.nexts = 0)]_vars
    /\ [][(pc = "backoff" /\ retry_back_off # None) =>
              /\ pc' = "backoff_sleep"
              /\ sleep_for' = Some(FromSecsF64(retry_back_off[1]))
              /\ UNCHANGED <<retry_back_off, backoff_provider>>]_vars

C17_Witness ==
    /\ pc = "idle_sleep"
    /\ retry_back_off # None
    /\ Envelope > MinEnvelopeMs

\* C18: shared_should_start is evaluated at the top of the loop body and nowhere
\* else: every stage after it runs in an iteration whose gate returned true, and
\* from the backoff wait on the task reaches the gate again only by a failure or
\* by the upload that ends the cycle.
C18_GateEvaluatedOncePerIteration ==
    /\ [](pc \in {"backoff", "backoff_sleep"} \cup CreateStages \cup SampleStages
                 \cup UploadStages => iter.gate = "gate_true")
    /\ []((iter.creates >= 1 \/ iter.remote_calls >= 1) => iter.gate = "gate_true")
    /\ [](pc = "idle_sleep" => (iter.gate = "gate_false" /\ iter.remote_calls = 0))
    /\ [][pc' = "gate" => pc \in {"on_gce", "idle_sleep", "patch"}
                          \/ iter'.failure \in FailureKinds]_vars
    /\ [][(pc = "patch" /\ pc' = "gate") =>
              (iter'.failure = "patch" \/ iter'.patches = 1)]_vars

C18_Witness ==
    /\ pc = "patch"
    /\ iter.gate = "gate_true"
    /\ iter.waited # None
    /\ iter.creates = 1 /\ iter.sampler_starts = 1

\* C19: an upload that fails drops the report and the profile of its iteration
\* and leaves for the loop top; the upload stage is entered only with a profile
\* created and a report sampled in the same iteration, and a profile is patched
\* at most once.
C19_FailedUploadDiscardsSession ==
    /\ [](iter.patches <= 1)
    /\ [](iter.failure \in UploadFailures =>
              (pc = "gate" /\ profile = None /\ guard = None /\ report = None))
    /\ [](pc \in {"backoff", "backoff_sleep", "create_auth", "create"} =>
              (profile = None /\ report = None /\ iter.creates = 0))
    /\ [](pc \in UploadStages =>
              /\ profile # None /\ report # None
              /\ iter.creates = 1 /\ iter.sampler_starts = 1 /\ iter.patches = 0)
    /\ [][(pc \in UploadStages /\ pc' \notin UploadStages \cup {"panicked"}) =>
              (pc' = "gate" /\ profile' = None /\ report' = None)]_vars

C19_Witness ==
    /\ e2e.on /\ e2e.upload_fails = 1
    /\ pc = "patch"
    /\ iter.creates = 1 /\ iter.sampler_starts = 1 /\ iter.patches = 0

\* The steps in which the gate is false or a stage of the cycle does not succeed
UnsuccessfulStep ==
    \/ GateFalse
    \/ CreateAuthFail \/ CreateFail \/ DurationMissing \/ DurationOverflow
    \/ SamplerStartFail \/ ReportBuildFail
    \/ PprofFail \/ SerializeFail \/ CompressPanic \/ NameMissing
    \/ UploadAuthFail \/ PatchFail

\* C20: once the task is spawned, if from some point on the gate is true and no
\* stage fails any more, then uploads succeed again and again, whatever happened
\* before that point.
C20_UploadsRecur ==
    (<>Spawned /\ <>[][~UnsuccessfulStep]_vars) => []<><<PatchOk>>_vars

\* The same for a task that never panics
C20_UploadsRecurUnlessPanicked ==
    (<>Spawned /\ [](pc # "panicked") /\ <>[][~UnsuccessfulStep]_vars)
        => []<><<PatchOk>>_vars

====
